---- MODULE Spec2Model ----
(***************************************************************************)
(* Model of the mosaic composition pipeline of wilbertopachecob/mosaic-app *)
(* (Go).  Modelled variant of the sources:                                 *)
(*   - handlers.go lines 297-416: generateMosaic, calculateAverageColor,   *)
(*     processTile, encodeImageToBase64 (cell averaging, clipped cells,    *)
(*     refill of the exhausted pool);                                      *)
(*   - lib/img (Nearest, Distance, Sq, Resize), as in lib/img/img.go and   *)
(*     unnamed/part_004 (both have the same Nearest);                      *)
(*   - lib/tiles_db CloneTilesDB (unnamed/part_005).                       *)
(*   - handlers.go lines 215-294 and 419-430: mosaicHandler and            *)
(*     sendErrorResponse; lib/tiles_db TilesDB (unnamed/part_005);         *)
(*   - main.go lines 366-415: main, which builds the index and serves.     *)
(*                                                                         *)
(* Colors are triples of channel values in the unit of the pixel-read      *)
(* primitive (color.RGBA()).  An average color is kept exact as the        *)
(* record [c |-> channel sums, n |-> pixel count], standing for c / n.     *)
(* Go maps are references: `heap` holds the contents of every map and the *)
(* variables tilesDB and db hold references into it.                       *)
(***************************************************************************)
EXTENDS Integers, Sequences, FiniteSets, TLC

\* ------------------------------------------------------------------ bounds
MaxW == 3
MaxH == 2
MaxTileSize == 3
MaxTiles == 3
NumReqs == 2
MaxOps == 2
MaxDim == 4
MaxCells == 4

\* --------------------------------------------------------- program constants
\* smallest := 1000000.0 in Nearest
SmallestInit == 1000000

\* ------------------------------------------------------------------ domains
Reqs == 1..NumReqs
BaseRef == 0
Refs == {BaseRef} \cup Reqs

KeyList == <<"tiles/a.jpg", "tiles/b.jpg", "tiles/c.jpg", "tiles/d.jpg", "tiles/e.jpg">>
Keys == {KeyList[i] : i \in 1..MaxTiles}

Red == <<255, 0, 0>>
Green == <<0, 255, 0>>
Blue == <<0, 0, 255>>
NearRed == <<250, 10, 10>>
Black == <<0, 0, 0>>
TileColors == {Red, Green, Blue}
TargetColors == {NearRed, Blue, Black, <<128, 128, 0>>}

\* the average color stored for each tile file when the index was built
ColorOfKey(k) ==
  CASE k = "tiles/a.jpg" -> Red
    [] k = "tiles/b.jpg" -> Blue
    [] k = "tiles/c.jpg" -> Red
    [] k = "tiles/d.jpg" -> Green
    [] OTHER -> Blue

\* the decoded size of each tile file: larger than a cell, a single pixel,
\* wide and flat, tall and narrow
DimsOfKey(k) ==
  CASE k = "tiles/a.jpg" -> [w |-> 4, h |-> 4]
    [] k = "tiles/b.jpg" -> [w |-> 1, h |-> 1]
    [] k = "tiles/c.jpg" -> [w |-> 4, h |-> 1]
    [] k = "tiles/d.jpg" -> [w |-> 1, h |-> 4]
    [] OTHER -> [w |-> 2, h |-> 2]

EmptyDB == [k \in {} |-> Black]

Perms(S) == {f \in [1..Cardinality(S) -> S] : \A a, b \in 1..Cardinality(S) : a # b => f[a] # f[b]}

\* an exact color value c / 1
Exact(c) == [c |-> c, n |-> 1]

\* --------------------------------------------------------------- variables
VARIABLES
  tilesDB,      \* the global index variable: a map reference
  heap,         \* contents of every map: reference -> (key -> color)
  built,        \* the contents of the index when construction finished
  broken,       \* tile files that fail to open or decode
  pc,           \* per request: "idle", "loop", "encode", "done"
  original,     \* per request: the decoded source image
  tileSize,     \* per request
  db,           \* per request: reference of the request-local pool
  newImage,     \* per request: the output canvas, bounds and writes
  xy,           \* per request: anchor <<x, y>> of the next cell
  cells,        \* per request: one record per processed cell
  refills,      \* per request: number of times the pool was refilled
  reads,        \* per request: source pixels read by the last cell
  writes,       \* per request: canvas pixels written by the last cell
  opens,        \* per request: paths handed to os.Open so far
  result,       \* per request: "none", "ok", "error"
  nearestCall,  \* one call of Nearest on drawn inputs
  hpc,          \* per request: position of mosaicHandler
  request,      \* per request: the HTTP request being served
  resp,         \* per request: the responses written, status and body
  cancelled,    \* per request: the request context is done
  cloneCall,    \* one use of CloneTilesDB and of the two maps afterwards
  resizeCall,   \* one call of Resize on drawn inputs
  averageCall,  \* one call of AverageColor on a drawn image
  scan,         \* one run of TilesDB over a drawn directory
  server        \* the process: position of main, the directory it indexes

vars == <<tilesDB, heap, built, broken, pc, original, tileSize, db, newImage, xy,
          cells, refills, reads, writes, opens, result, nearestCall,
          hpc, request, resp, cancelled, cloneCall, resizeCall, averageCall, scan, server>>

handlerVars == <<hpc, request, resp, cancelled>>
callVars == <<cloneCall, resizeCall, averageCall, scan>>

reqVars == <<pc, original, tileSize, db, newImage, xy, cells, refills, reads, writes, opens, result>>
globVars == <<tilesDB, heap, built, broken>>

\* ------------------------------------------------------------ lib/img
Sq(n) == n * n

\* the base of the two-part numbers that hold a squared distance:
\* SmallestInit = Limb * Limb
Limb == 1000

Abs(d) == IF d < 0 THEN 0 - d ELSE d

\* d1^2 + d2^2 + d3^2 as [hi, lo], standing for hi * Limb^2 + lo with
\* lo < Limb^2: with d = Limb * a + b, d^2 = Limb^2 a^2 + 2 Limb a b + b^2
SumSq(d1, d2, d3) ==
  LET A == Sq(d1 \div Limb) + Sq(d2 \div Limb) + Sq(d3 \div Limb)
      B == (d1 \div Limb) * (d1 % Limb) + (d2 \div Limb) * (d2 % Limb) + (d3 \div Limb) * (d3 % Limb)
      C == Sq(d1 % Limb) + Sq(d2 % Limb) + Sq(d3 % Limb)
      m == (2 * B) + (C \div Limb)
  IN [hi |-> A + (m \div Limb), lo |-> (Limb * (m % Limb)) + (C % Limb)]

\* Distance(p1, p2)^2 scaled by n^2, where p1 = target.c / target.n
Distance(target, p2) ==
  SumSq(Abs(target.n * p2[1] - target.c[1]), Abs(target.n * p2[2] - target.c[2]),
        Abs(target.n * p2[3] - target.c[3]))

\* d1 < d2 for two values of Distance
DistLT(d1, d2) == d1.hi < d2.hi \/ (d1.hi = d2.hi /\ d1.lo < d2.lo)

\* dist < smallest.  smallest is <<"const", L>> for the initial constant L or
\* <<"dist", d>> for an earlier value of Distance (same target, same scale):
\* sqrt(d2)/n < L  <=>  d2 < L*L*n*n  <=>  hi < L*n*n  <=>  hi \div (n*n) < L,
\* for d2 = hi * L + lo with lo < L and L = Limb * Limb
DistLess(dist, smallest, n) ==
  IF smallest[1] = "const"
    THEN (dist.hi \div (n * n)) < smallest[2]
    ELSE DistLT(dist, smallest[2])

\* a scan that never lowers `smallest`: the last key in range wins
RECURSIVE NearestScan_keepLimit(_, _, _, _, _, _)
NearestScan_keepLimit(target, pool, order, i, filename, smallest) ==
  IF i > Len(order) THEN filename
  ELSE LET k == order[i]
           dist == Distance(target, pool[k])
       IN IF DistLess(dist, smallest, target.n)
            THEN NearestScan_keepLimit(target, pool, order, i + 1, k, smallest)
            ELSE NearestScan_keepLimit(target, pool, order, i + 1, filename, smallest)

RECURSIVE NearestScan(_, _, _, _, _, _)
NearestScan(target, pool, order, i, filename, smallest) ==
  IF i > Len(order) THEN filename
  ELSE LET k == order[i]
           dist == Distance(target, pool[k])
       IN IF DistLess(dist, smallest, target.n)
            THEN NearestScan(target, pool, order, i + 1, k, <<"dist", dist>>)
            ELSE NearestScan(target, pool, order, i + 1, filename, smallest)

\* a Nearest that forgets the delete
Delete_none(pool, filename) == pool

\* delete(*db, filename)
Delete(pool, filename) == [k \in (DOMAIN pool) \ {filename} |-> pool[k]]

\* the zero value of `var filename string`
NoMatch == ""

\* a Nearest whose result starts as a non-empty placeholder
Nearest_placeholder(target, pool, order) ==
  LET filename == NearestScan(target, pool, order, 1, "none", <<"const", SmallestInit>>)
  IN [key |-> filename, pool |-> Delete(pool, filename)]

\* Nearest(target, &db); order is the iteration order of the Go map
Nearest(target, pool, order) ==
  LET filename == NearestScan(target, pool, order, 1, NoMatch, <<"const", SmallestInit>>)
  IN [key |-> filename, pool |-> Delete(pool, filename)]

\* in.At(x, y) of a tile image: the pixel is named by its file and position
ZeroPx == [kind |-> "zero", key |-> "", sx |-> 0, sy |-> 0]
BlackPx == [kind |-> "black", key |-> "", sx |-> 0, sy |-> 0]
TilePx(k, sx, sy) == [kind |-> "tile", key |-> k, sx |-> sx, sy |-> sy]

\* a / b on Go ints: the quotient truncated toward zero, a panic for b = 0
GoDiv(a, b) ==
  IF b = 0 THEN [panic |-> TRUE, val |-> 0]
  ELSE IF (a < 0) = (b < 0)
    THEN [panic |-> FALSE, val |-> (IF a < 0 THEN 0 - a ELSE a) \div (IF b < 0 THEN 0 - b ELSE b)]
    ELSE [panic |-> FALSE, val |-> 0 - ((IF a < 0 THEN 0 - a ELSE a) \div (IF b < 0 THEN 0 - b ELSE b))]

\* a sampling that steps through the source one pixel at a time
Sampled_stride1(in, ratio, w, h) ==
  [p \in (0..(w - 1)) \X (0..(h - 1)) |->
     IF p[1] < in.w /\ p[2] < in.h THEN TilePx(in.key, p[1], p[2]) ELSE ZeroPx]

\* the pixels of the resized tile: out.SetNRGBA(i, j, in.At(i * ratio, j * ratio))
\* while the sample lies inside `in`, the zero value elsewhere
Sampled(in, ratio, w, h) ==
  [p \in (0..(w - 1)) \X (0..(h - 1)) |->
     IF p[1] * ratio < in.w /\ p[2] * ratio < in.h
       THEN TilePx(in.key, p[1] * ratio, p[2] * ratio)
       ELSE ZeroPx]

\* a Resize without the checks of newWidth, ratio and newHeight
Resize_unguarded(in, newWidth0) ==
  LET ratio == GoDiv(in.w, newWidth0)
  IN IF ratio.panic \/ ratio.val = 0
       THEN [panic |-> TRUE, w |-> 0, h |-> 0, px |-> Sampled(in, 1, 0, 0), in |-> in, newWidth |-> newWidth0]
       ELSE [panic |-> FALSE, w |-> GoDiv(in.w, ratio.val).val, h |-> GoDiv(in.h, ratio.val).val,
             px |-> Sampled(in, ratio.val, GoDiv(in.w, ratio.val).val, GoDiv(in.h, ratio.val).val),
             in |-> in, newWidth |-> newWidth0]

\* Resize(in, newWidth) for a decoded tile `in` = [key, w, h] with bounds
\* (0, 0)-(w, h).  The result has bounds (0, 0)-(w, h) and pixels px; panic
\* says that an integer division by zero stopped the call.
Resize(in, newWidth0) ==
  LET newWidth == IF newWidth0 <= 0 THEN 1 ELSE newWidth0
  IN IF in.w <= 0
       THEN [panic |-> FALSE, w |-> 1, h |-> 1, px |-> [p \in {<<0, 0>>} |-> ZeroPx],
             in |-> in, newWidth |-> newWidth0]
       ELSE LET ratio0 == GoDiv(in.w, newWidth)
                ratio == IF ratio0.val <= 0 THEN 1 ELSE ratio0.val
                newHeight0 == GoDiv(in.h, ratio)
                newHeight == IF newHeight0.val <= 0 THEN 1 ELSE newHeight0.val
            IN [panic |-> ratio0.panic \/ newHeight0.panic, w |-> newWidth, h |-> newHeight,
                px |-> Sampled(in, ratio, newWidth, newHeight), in |-> in, newWidth |-> newWidth0]

\* ------------------------------------------------------------ lib/tiles_db
\* a clone that hands back the map it was given
CloneTilesDB_alias(h, src, fresh) == [ref |-> src, heap |-> h]

\* CloneTilesDB(src): a fresh map `fresh` holding a copy of every entry
CloneTilesDB(h, src, fresh) ==
  [ref |-> fresh, heap |-> [h EXCEPT ![fresh] = [k \in DOMAIN h[src] |-> h[src][k]]]]

\* m[k] = c on a Go map
MapSet(m, k, c) == [x \in (DOMAIN m) \cup {k} |-> IF x = k THEN c ELSE m[x]]

\* ------------------------------------------------------------ source image
\* a decoded upload: bounds (minX, minY)-(maxX, maxY) and a pixel pattern
Bounds(img) == (img.minX..(img.maxX - 1)) \X (img.minY..(img.maxY - 1))

\* original.At(x, y).RGBA(): the zero color outside the bounds
At(img, x, y) ==
  IF <<x, y>> \notin Bounds(img) THEN Black
  ELSE IF img.pat = "uniform" THEN Red
  ELSE IF x = img.minX THEN Red ELSE Blue

Origins == {<<0, 0>>, <<1, 2>>}
Patterns == {"uniform", "split"}
Images ==
  {[minX |-> o[1], minY |-> o[2], maxX |-> o[1] + w, maxY |-> o[2] + h, pat |-> p] :
     o \in Origins, w \in 1..MaxW, h \in 1..MaxH, p \in Patterns}
NoImage == [minX |-> 0, minY |-> 0, maxX |-> 0, maxY |-> 0, pat |-> "uniform"]

\* ------------------------------------------------------------ handlers.go
\* a cell end that is not clipped
ClipEnd_none(x, ts, max) == x + ts

\* endX := x + tileSize; if endX > bounds.Max.X { endX = bounds.Max.X }
ClipEnd(x, ts, max) == IF x + ts > max THEN max ELSE x + ts

\* totalR, totalG, totalB and pixelCount of two parts of a cell together
AddSums(s, t) ==
  [c |-> <<s.c[1] + t.c[1], s.c[2] + t.c[2], s.c[3] + t.c[3]>>, n |-> s.n + t.n]

\* the inner loop of calculateAverageColor on row y for the columns x..endX-1:
\* sums and pixelCount (the sum is taken by halves)
RECURSIVE SumRow(_, _, _, _)
SumRow(img, x, y, endX) ==
  IF x >= endX THEN [c |-> Black, n |-> 0]
  ELSE IF x + 1 = endX THEN [c |-> At(img, x, y), n |-> 1]
  ELSE LET mid == (x + endX) \div 2
       IN AddSums(SumRow(img, x, y, mid), SumRow(img, mid, y, endX))

\* the outer loop of calculateAverageColor for the rows y..endY-1
RECURSIVE SumFrom(_, _, _, _, _)
SumFrom(img, y, startX, endX, endY) ==
  IF y >= endY THEN [c |-> Black, n |-> 0]
  ELSE IF y + 1 = endY THEN SumRow(img, startX, y, endX)
  ELSE LET mid == (y + endY) \div 2
       IN AddSums(SumFrom(img, y, startX, endX, mid), SumFrom(img, mid, startX, endX, endY))

\* the fraction c / n in lowest terms: the same color value
RECURSIVE GCD(_, _)
GCD(a, b) == IF b = 0 THEN a ELSE GCD(b, a % b)

Reduce(s) ==
  LET g == GCD(GCD(GCD(s.n, s.c[1]), s.c[2]), s.c[3])
  IN [c |-> <<s.c[1] \div g, s.c[2] \div g, s.c[3] \div g>>, n |-> s.n \div g]

calculateAverageColor(img, startX, startY, endX, endY) ==
  LET s == SumFrom(img, startY, startX, endX, endY)
  IN IF s.n = 0 THEN Exact(Black) ELSE Reduce(s)

\* the pixels calculateAverageColor passes to img.At
AverageReads(startX, startY, endX, endY) == (startX..(endX - 1)) \X (startY..(endY - 1))

\* a composition that never refills
NeedRefill_never(key, pool) == FALSE

\* if nearestFileByColor == "" && len(db) == 0
NeedRefill(key, pool) == key = "" /\ Cardinality(DOMAIN pool) = 0

\* Nearest on the request pool, then the refill and the retry.
\* order1 and order2 are the iteration orders of the two scans.
Match(avg, h, ref, base, fresh, order1, order2) ==
  LET n1 == Nearest(avg, h[ref], order1)
      h1 == [h EXCEPT ![ref] = n1.pool]
  IN IF NeedRefill(n1.key, n1.pool)
       THEN LET cl == CloneTilesDB(h1, base, fresh)
                n2 == Nearest(avg, cl.heap[cl.ref], order2)
            IN [first |-> n1.key, key |-> n2.key, refilled |-> TRUE, ref |-> cl.ref,
                heap |-> [cl.heap EXCEPT ![cl.ref] = n2.pool]]
       ELSE [first |-> n1.key, key |-> n1.key, refilled |-> FALSE, ref |-> ref, heap |-> h1]

\* the iteration orders the retry scan can take: those of the base index when
\* the first scan leads to a refill, none to choose otherwise
RetryOrders(avg, h, ref, base, order1) ==
  LET n1 == Nearest(avg, h[ref], order1)
  IN IF NeedRefill(n1.key, n1.pool) THEN Perms(DOMAIN h[base]) ELSE {<<>>}

\* os.Open and image.Decode of a tile file succeed
FileOk(path, bad) == path \in Keys /\ path \notin bad

\* image.NewNRGBA(bounds): the buffer is kept as its bounds and the writes
\* made to it, in order
NewNRGBA(b) == [bounds |-> b, ops |-> <<>>]

NoTile == [key |-> "", w |-> 0, h |-> 0]

InRect(r, p) == r.x0 <= p[1] /\ p[1] < r.x1 /\ r.y0 <= p[2] /\ p[2] < r.y1

\* the write `op` changes the pixel p of the buffer
Covers(canvas, op, p) ==
  /\ p \in Bounds(canvas.bounds)
  /\ InRect(op.r, p)
  /\ op.kind = "draw" =>
        /\ 0 <= p[1] - op.r.x0 + op.sp[1] /\ p[1] - op.r.x0 + op.sp[1] < op.w
        /\ 0 <= p[2] - op.r.y0 + op.sp[2] /\ p[2] - op.r.y0 + op.sp[2] < op.h

\* newImage.At(p): what the last write that covers p left there, the zero
\* value of the buffer if there is none
PixelAt(canvas, p) ==
  LET hits == {i \in 1..Len(canvas.ops) : Covers(canvas, canvas.ops[i], p)}
  IN IF hits = {} THEN ZeroPx
     ELSE LET op == canvas.ops[CHOOSE i \in hits : \A j \in hits : j <= i]
          IN IF op.kind = "fill" THEN BlackPx
             ELSE Resize(op.in, op.newWidth).px[<<p[1] - op.r.x0 + op.sp[1], p[2] - op.r.y0 + op.sp[2]>>]

\* draw.Draw(dst, r, src, sp, draw.Src): r clipped to the bounds of dst and
\* to the bounds of src moved to r.Min - sp
DrawRect(dstBounds, r, src, sp) ==
  {p \in (r.x0..(r.x1 - 1)) \X (r.y0..(r.y1 - 1)) :
     /\ p \in dstBounds
     /\ 0 <= p[1] - r.x0 + sp[1] /\ p[1] - r.x0 + sp[1] < src.w
     /\ 0 <= p[2] - r.y0 + sp[2] /\ p[2] - r.y0 + sp[2] < src.h}

Draw(dst, r, src, sp) ==
  [img |-> [dst EXCEPT !.ops = Append(@, [kind |-> "draw", r |-> r, sp |-> sp, in |-> src.in,
                                           newWidth |-> src.newWidth, w |-> src.w, h |-> src.h])],
   writes |-> DrawRect(Bounds(dst.bounds), r, src, sp)]

\* a processTile without the branch for the empty path
processTile_noFill(tilePath, canvas, x, y, width, height, sp, bad) ==
  IF ~FileOk(tilePath, bad)
    THEN [img |-> canvas, writes |-> {}, err |-> TRUE, opened |-> {tilePath}]
  ELSE LET tileImg == [key |-> tilePath, w |-> DimsOfKey(tilePath).w, h |-> DimsOfKey(tilePath).h]
           resizedTile == Resize(tileImg, width)
           tileBounds == [x0 |-> x, y0 |-> y, x1 |-> x + width, y1 |-> y + height]
           d == Draw(canvas, tileBounds, resizedTile, sp)
       IN [img |-> d.img, writes |-> d.writes, err |-> FALSE, opened |-> {tilePath}]

\* processTile(tilePath, newImage, x, y, width, height, sourcePoint)
processTile(tilePath, canvas, x, y, width, height, sp, bad) ==
  IF tilePath = ""
    THEN LET fill == (x..(x + width - 1)) \X (y..(y + height - 1))
             r == [x0 |-> x, y0 |-> y, x1 |-> x + width, y1 |-> y + height]
         IN [img |-> [canvas EXCEPT !.ops = Append(@, [kind |-> "fill", r |-> r, sp |-> <<0, 0>>,
                                                        in |-> NoTile, newWidth |-> 0, w |-> 0, h |-> 0])],
             writes |-> fill, err |-> FALSE, opened |-> {}]
  ELSE IF ~FileOk(tilePath, bad)
    THEN [img |-> canvas, writes |-> {}, err |-> TRUE, opened |-> {tilePath}]
  ELSE LET tileImg == [key |-> tilePath, w |-> DimsOfKey(tilePath).w, h |-> DimsOfKey(tilePath).h]
           resizedTile == Resize(tileImg, width)
           tileBounds == [x0 |-> x, y0 |-> y, x1 |-> x + width, y1 |-> y + height]
           d == Draw(canvas, tileBounds, resizedTile, sp)
       IN [img |-> d.img, writes |-> d.writes, err |-> FALSE, opened |-> {tilePath}]

\* a loop that gives up on the first tile error
AfterTile_abort(err) == IF err THEN "abort" ELSE "loop"

\* if err := processTile(...); err != nil { log } : the loop goes on
AfterTile(err) == "loop"

\* the largest width or height jpeg.Encode accepts is one less than this
JpegLimit == 65536

\* an encoder that takes every canvas
encodeImageToBase64_any(b) == "ok"

\* encodeImageToBase64(newImage), newImage having the bounds b: jpeg.Encode
\* into a memory buffer fails only for a canvas too large for the format
encodeImageToBase64(b) ==
  IF b.maxX - b.minX >= JpegLimit \/ b.maxY - b.minY >= JpegLimit THEN "error" ELSE "ok"

\* a traversal that goes down the columns first
NextXY_columnFirst(img, ts, x, y) ==
  IF y + ts < img.maxY THEN <<x, y + ts>> ELSE <<x + ts, img.minY>>

\* the anchor of the cell after (x, y): x += tileSize, then y += tileSize
NextXY(img, ts, x, y) ==
  IF x + ts < img.maxX THEN <<x + ts, y>> ELSE <<img.minX, y + ts>>

\* ------------------------------------------------------------------ states
\* no request received
NoRequest ==
  [formOk |-> TRUE, hasFile |-> TRUE, size |-> 0, tileSizeStr |-> <<>>, decodes |-> TRUE, image |-> NoImage]

NoClone == [called |-> FALSE, ref |-> BaseRef, index |-> EmptyDB, clone |-> EmptyDB, ops |-> 0]
NoResize ==
  [called |-> FALSE, w |-> 0, h |-> 0, newWidth |-> 0, panic |-> FALSE, outW |-> 0, outH |-> 0,
   px |-> [p \in {} |-> ZeroPx]]
NoAverage == [called |-> FALSE, img |-> NoImage, out |-> Exact(Black), region |-> Exact(Black)]
NoScan ==
  [pc |-> "none", exists |-> FALSE, readable |-> FALSE, dir |-> <<>>, i |-> 0, db |-> EmptyDB,
   failed |-> FALSE]

InitGlobals ==
  /\ tilesDB = BaseRef
  /\ \E S \in SUBSET Keys :
       /\ heap = [ref \in Refs |-> IF ref = BaseRef THEN [k \in S |-> ColorOfKey(k)] ELSE EmptyDB]
       /\ built = [k \in S |-> ColorOfKey(k)]
       /\ broken \in SUBSET S

\* main after go server.ListenAndServe(): the index is assigned, requests
\* are accepted
ServerUp == [pc |-> "serving", dir |-> <<>>, i |-> 1, assigns |-> 1]

\* no request has arrived
NoRequests ==
  /\ pc = [r \in Reqs |-> "idle"]
  /\ original = [r \in Reqs |-> NoImage]
  /\ tileSize = [r \in Reqs |-> 1]
  /\ db = [r \in Reqs |-> r]
  /\ newImage = [r \in Reqs |-> NewNRGBA(NoImage)]
  /\ xy = [r \in Reqs |-> <<0, 0>>]
  /\ cells = [r \in Reqs |-> <<>>]
  /\ refills = [r \in Reqs |-> 0]
  /\ reads = [r \in Reqs |-> {}]
  /\ writes = [r \in Reqs |-> {}]
  /\ opens = [r \in Reqs |-> {}]
  /\ result = [r \in Reqs |-> "none"]
  /\ hpc = [r \in Reqs |-> "idle"]
  /\ request = [r \in Reqs |-> NoRequest]
  /\ resp = [r \in Reqs |-> <<>>]
  /\ cancelled = [r \in Reqs |-> FALSE]

InitReqs == NoRequests /\ server = ServerUp

NoCall == [target |-> Exact(Black), pool |-> EmptyDB, key |-> "", after |-> EmptyDB, called |-> FALSE]

\* no call of the library functions on their own
NoCalls ==
  /\ cloneCall = NoClone
  /\ resizeCall = NoResize
  /\ averageCall = NoAverage
  /\ scan = NoScan

Init == InitGlobals /\ InitReqs /\ nearestCall = NoCall /\ NoCalls

\* generateMosaic(original, tileSize) up to the first cell:
\* bounds, newImage, db := CloneTilesDB(tilesDB)
Begin(r, img, ts) ==
  /\ pc[r] = "idle"
  /\ LET cl == CloneTilesDB(heap, tilesDB, r)
     IN /\ heap' = cl.heap
        /\ db' = [db EXCEPT ![r] = cl.ref]
  /\ original' = [original EXCEPT ![r] = img]
  /\ tileSize' = [tileSize EXCEPT ![r] = ts]
  /\ newImage' = [newImage EXCEPT ![r] = NewNRGBA(img)]
  /\ xy' = [xy EXCEPT ![r] = <<img.minX, img.minY>>]
  /\ pc' = [pc EXCEPT ![r] = IF img.minY < img.maxY /\ img.minX < img.maxX THEN "loop" ELSE "encode"]
  /\ UNCHANGED <<tilesDB, built, broken, cells, refills, reads, writes, opens, result, nearestCall, server, callVars>>

generateMosaic(r) ==
  /\ pc[r] = "idle"
  /\ \E img \in Images, ts \in 1..MaxTileSize : Begin(r, img, ts) /\ UNCHANGED handlerVars

\* one iteration of the cell loop of generateMosaic; avgColor, the match m and
\* the result t of processTile are computed once for the iteration
CellStep(r) ==
  /\ pc[r] = "loop"
  /\ LET img == original[r]
         ts == tileSize[r]
         x == xy[r][1]
         y == xy[r][2]
         endX == ClipEnd(x, ts, img.maxX)
         endY == ClipEnd(y, ts, img.maxY)
     IN \E avgColor \in {calculateAverageColor(img, x, y, endX, endY)} :
        \E order1 \in Perms(DOMAIN heap[db[r]]) :
        \E order2 \in RetryOrders(avgColor, heap, db[r], tilesDB, order1) :
        \E m \in {Match(avgColor, heap, db[r], tilesDB, r, order1, order2)} :
        \E t \in {processTile(m.key, newImage[r], x, y, endX - x, endY - y, <<0, 0>>, broken)} :
          LET nxt == NextXY(img, ts, x, y)
              epoch == refills[r] + (IF m.refilled THEN 1 ELSE 0)
          IN /\ heap' = m.heap
             /\ db' = [db EXCEPT ![r] = m.ref]
             /\ refills' = [refills EXCEPT ![r] = epoch]
             /\ newImage' = [newImage EXCEPT ![r] = t.img]
             /\ reads' = [reads EXCEPT ![r] = AverageReads(x, y, endX, endY)]
             /\ writes' = [writes EXCEPT ![r] = t.writes]
             /\ opens' = [opens EXCEPT ![r] = @ \cup t.opened]
             /\ cells' = [cells EXCEPT ![r] = Append(@,
                            [x |-> x, y |-> y, w |-> endX - x, h |-> endY - y, first |-> m.first,
                             key |-> m.key, refilled |-> m.refilled, err |-> t.err, epoch |-> epoch])]
             /\ xy' = [xy EXCEPT ![r] = nxt]
             /\ IF AfterTile(t.err) = "loop"
                  THEN /\ pc' = [pc EXCEPT ![r] = IF nxt[2] < img.maxY THEN "loop" ELSE "encode"]
                       /\ result' = result
                  ELSE /\ pc' = [pc EXCEPT ![r] = "done"]
                       /\ result' = [result EXCEPT ![r] = "error"]
  /\ UNCHANGED <<tilesDB, built, broken, original, tileSize, nearestCall, server, handlerVars, callVars>>

\* return encodeImageToBase64(newImage)
Finish(r) ==
  /\ pc[r] = "encode"
  /\ result' = [result EXCEPT ![r] = encodeImageToBase64(original[r])]
  /\ pc' = [pc EXCEPT ![r] = "done"]
  /\ UNCHANGED <<globVars, original, tileSize, db, newImage, xy, cells, refills, reads, writes, opens, nearestCall, server,
                 handlerVars, callVars>>

\* one composition
Next == generateMosaic(1) \/ CellStep(1) \/ Finish(1)

Spec == Init /\ [][Next]_vars

\* concurrent compositions: every request runs generateMosaic on its own
\* goroutine against the shared index; the uploads are two pixels wide, so a
\* request has one or two cells and an index of one tile is refilled
ConcImages == {img \in Images : img.minX = 0 /\ img.minY = 0 /\ img.maxX = 2 /\ img.maxY = 1 /\ img.pat = "split"}

InitConc ==
  /\ tilesDB = BaseRef
  /\ \E S \in SUBSET Keys :
       /\ heap = [ref \in Refs |-> IF ref = BaseRef THEN [k \in S |-> ColorOfKey(k)] ELSE EmptyDB]
       /\ built = [k \in S |-> ColorOfKey(k)]
  /\ broken = {}
  /\ InitReqs
  /\ nearestCall = NoCall
  /\ NoCalls

generateMosaicConc(r) ==
  /\ pc[r] = "idle"
  /\ \E img \in ConcImages, ts \in 1..2 : Begin(r, img, ts) /\ UNCHANGED handlerVars

NextConc == \E r \in Reqs : generateMosaicConc(r) \/ CellStep(r) \/ Finish(r)

SpecConc == InitConc /\ [][NextConc]_vars

\* ------------------------------- generateMosaic called with any tile size
\* generateMosaic takes its tileSize as it comes: zero, negative or positive
DegenerateSizes == (0 - 1)..1

\* uploads of one row, one to MaxW pixels wide
RowImages == {img \in Images : img.minX = 0 /\ img.minY = 0 /\ img.maxY = 1 /\ img.pat = "split"}

generateMosaicDirect(r) ==
  /\ pc[r] = "idle"
  /\ \E img \in RowImages, ts \in DegenerateSizes : Begin(r, img, ts) /\ UNCHANGED handlerVars

\* the cell loop, followed for MaxCells iterations
CellStepBounded(r) == Len(cells[r]) < MaxCells /\ CellStep(r)

NextDirect == generateMosaicDirect(1) \/ CellStepBounded(1) \/ Finish(1)

SpecDirect == Init /\ [][NextDirect]_vars

\* ------------------------------------------------ a call of Nearest alone
Pools == UNION {[S -> TileColors] : S \in SUBSET Keys}

InitNearest ==
  /\ tilesDB = BaseRef
  /\ heap = [ref \in Refs |-> EmptyDB]
  /\ built = EmptyDB
  /\ broken = {}
  /\ InitReqs
  /\ NoCalls
  /\ \E t \in TargetColors, p \in Pools :
       nearestCall = [target |-> Exact(t), pool |-> p, key |-> "", after |-> p, called |-> FALSE]

NearestCall ==
  /\ ~nearestCall.called
  /\ \E order \in Perms(DOMAIN nearestCall.pool) :
       LET n == Nearest(nearestCall.target, nearestCall.pool, order)
       IN nearestCall' = [nearestCall EXCEPT !.key = n.key, !.after = n.pool, !.called = TRUE]
  /\ UNCHANGED <<globVars, reqVars, handlerVars, callVars, server>>

NextNearest == NearestCall

SpecNearest == InitNearest /\ [][NextNearest]_vars

\* ----------------------------- a call of Nearest on colors of any size
\* Nearest takes any [3]float64: colors as far from black as the initial
\* value of `smallest`, and twice as far
FarRed == <<SmallestInit, 0, 0>>
FarTargets == {Black, Red, FarRed, <<2 * SmallestInit, 0, 0>>}
FarPools == UNION {[S -> {Black, Red, FarRed}] : S \in SUBSET Keys}

InitFar ==
  /\ tilesDB = BaseRef
  /\ heap = [ref \in Refs |-> EmptyDB]
  /\ built = EmptyDB
  /\ broken = {}
  /\ InitReqs
  /\ NoCalls
  /\ \E t \in FarTargets, p \in FarPools :
       nearestCall = [target |-> Exact(t), pool |-> p, key |-> "", after |-> p, called |-> FALSE]

NextFar == NearestCall

SpecFar == InitFar /\ [][NextFar]_vars

\* ------------------------------------------------------------ mosaicHandler
\* 10 << 20
MaxUploadSize == 10485760

\* strconv.Atoi(s), s a sequence of characters: an optional sign followed by
\* one or more decimal digits; anything else is an error and the value 0
Digits == <<"0", "1", "2", "3", "4", "5", "6", "7", "8", "9">>
IsDigit(ch) == \E d \in 1..10 : Digits[d] = ch
DigitVal(ch) == (CHOOSE d \in 1..10 : Digits[d] = ch) - 1

RECURSIVE ParseDigits(_, _, _)
ParseDigits(s, i, acc) ==
  IF i > Len(s) THEN acc ELSE ParseDigits(s, i + 1, acc * 10 + DigitVal(s[i]))

Atoi(s) ==
  LET signed == Len(s) > 0 /\ s[1] \in {"+", "-"}
      digits == IF signed THEN SubSeq(s, 2, Len(s)) ELSE s
  IN IF Len(digits) = 0 \/ \E i \in 1..Len(digits) : ~IsDigit(digits[i])
       THEN [err |-> TRUE, val |-> 0]
       ELSE [err |-> FALSE,
             val |-> IF signed /\ s[1] = "-" THEN 0 - ParseDigits(digits, 1, 0)
                     ELSE ParseDigits(digits, 1, 0)]

\* a range check without the upper limit
TileSizeOutOfRange_noUpper(ts) == ts < 5

\* if tileSize < 5 || tileSize > 200
TileSizeOutOfRange(ts) == ts < 5 \/ ts > 200

\* the JSON body of models.ErrorResponse and of models.MosaicResponse
ErrorBody(message, details, statusCode) ==
  [keys |-> {"error", "message", "code"}, error |-> message, message |-> details,
   code |-> statusCode, mosaicImg |-> ""]
MosaicBody(mosaicImg) ==
  [keys |-> {"mosaicImg", "duration"}, error |-> "", message |-> "", code |-> 0,
   mosaicImg |-> mosaicImg]

\* an error response whose body carries a fixed code
sendErrorResponse_fixedCode(statusCode, message, details) ==
  [status |-> statusCode, body |-> ErrorBody(message, details, 500)]

\* sendErrorResponse(w, statusCode, message, details)
sendErrorResponse(statusCode, message, details) ==
  [status |-> statusCode, body |-> ErrorBody(message, details, statusCode)]

\* a handler that goes on after an error response
AfterSend_fallThrough(next) == next

\* the `return` that follows every sendErrorResponse
AfterSend(next) == "returned"

\* one `if <failed> { sendErrorResponse(...); return }` of mosaicHandler
Check(r, here, failed, statusCode, message, details, next) ==
  /\ hpc[r] = here
  /\ IF failed
       THEN /\ resp' = [resp EXCEPT ![r] = Append(@, sendErrorResponse(statusCode, message, details))]
            /\ hpc' = [hpc EXCEPT ![r] = AfterSend(next)]
       ELSE /\ resp' = resp
            /\ hpc' = [hpc EXCEPT ![r] = next]
  /\ UNCHANGED <<globVars, reqVars, request, cancelled, nearestCall, server, callVars>>

\* the server hands the request rq to mosaicHandler
Receive(r, rq) ==
  /\ hpc[r] = "idle"
  /\ request' = [request EXCEPT ![r] = rq]
  /\ hpc' = [hpc EXCEPT ![r] = "parse"]
  /\ UNCHANGED <<globVars, reqVars, resp, cancelled, nearestCall, server, callVars>>

ParseMultipartForm(r) ==
  Check(r, "parse", ~request[r].formOk, 400, "Invalid form data", "form error", "file")

FormFile(r) ==
  Check(r, "file", ~request[r].hasFile, 400, "No file uploaded", "http: no such file", "size")

CheckFileSize(r) ==
  Check(r, "size", request[r].size > MaxUploadSize, 400, "File too large",
        "File size exceeds 10MB limit", "atoi")

ParseTileSize(r) ==
  LET a == Atoi(request[r].tileSizeStr)
  IN Check(r, "atoi", a.err \/ a.val <= 0, 400, "Invalid tile size",
           "Tile size must be a positive integer", "range")

CheckTileSize(r) ==
  Check(r, "range", TileSizeOutOfRange(Atoi(request[r].tileSizeStr).val), 400, "Invalid tile size",
        "Tile size must be between 5 and 200 pixels", "decode")

Decode(r) ==
  Check(r, "decode", ~request[r].decodes, 400, "Invalid image format", "image: unknown format",
        "generate")

\* mosaicImg, err := generateMosaic(original, tileSize): the call
Generate(r) ==
  /\ hpc[r] = "generate"
  /\ Begin(r, request[r].image, Atoi(request[r].tileSizeStr).val)
  /\ hpc' = [hpc EXCEPT ![r] = "wait"]
  /\ UNCHANGED <<request, resp, cancelled>>

\* if err != nil { sendErrorResponse(500, ...); return }, on the return of generateMosaic
CheckGenerate(r) ==
  /\ pc[r] = "done"
  /\ Check(r, "wait", result[r] = "error", 500, "Failed to generate mosaic",
           "failed to encode image", "success")

\* w.WriteHeader(http.StatusCreated); json.NewEncoder(w).Encode(response)
Success(r) ==
  /\ hpc[r] = "success"
  /\ resp' = [resp EXCEPT ![r] = Append(@, [status |-> 201, body |-> MosaicBody(result[r])])]
  /\ hpc' = [hpc EXCEPT ![r] = "returned"]
  /\ UNCHANGED <<globVars, reqVars, request, cancelled, nearestCall, server, callVars>>

\* the client goes away or the server's timeout passes: r.Context() is done
Cancel(r) ==
  /\ hpc[r] \notin {"idle", "returned"}
  /\ ~cancelled[r]
  /\ cancelled' = [cancelled EXCEPT ![r] = TRUE]
  /\ UNCHANGED <<globVars, reqVars, hpc, request, resp, nearestCall, server, callVars>>

\* the tileSize form values drawn: absent, not a number, zero, negative,
\* below, at and above the limits, a fraction, signed, padded
TileSizeStrs ==
  {<<>>, <<"x">>, <<"0">>, <<"-", "5">>, <<"4">>, <<"5">>, <<"5", "0">>, <<"2", "0", "0">>,
   <<"2", "0", "1">>, <<"5", ".", "5">>, <<"+", "5">>, <<" ", "5">>}

\* eleven pixels wide: three cells at tile size 5, the last one clipped
WideImage == [minX |-> 0, minY |-> 0, maxX |-> 11, maxY |-> 1, pat |-> "split"]

HandlerImages ==
  {img \in Images : img.minX = 0 /\ img.minY = 0 /\ img.maxY = 1 /\ img.pat = "split"} \cup {WideImage}

Requests ==
  [formOk : BOOLEAN, hasFile : BOOLEAN, size : {MaxUploadSize, MaxUploadSize + 1},
   tileSizeStr : TileSizeStrs, decodes : BOOLEAN, image : HandlerImages]

\* the index is empty or holds every tile; every tile file is readable or none is
InitHandler ==
  /\ tilesDB = BaseRef
  /\ \E S \in {{}, Keys} :
       /\ heap = [ref \in Refs |-> IF ref = BaseRef THEN [k \in S |-> ColorOfKey(k)] ELSE EmptyDB]
       /\ built = [k \in S |-> ColorOfKey(k)]
       /\ broken \in {{}, S}
  /\ InitReqs
  /\ nearestCall = NoCall
  /\ NoCalls

mosaicHandler(r) == hpc[r] = "idle" /\ \E rq \in Requests : Receive(r, rq)

NextHandler ==
  \/ mosaicHandler(1) \/ ParseMultipartForm(1) \/ FormFile(1) \/ CheckFileSize(1)
  \/ ParseTileSize(1) \/ CheckTileSize(1) \/ Decode(1) \/ Generate(1)
  \/ CellStep(1) \/ Finish(1) \/ CheckGenerate(1) \/ Success(1) \/ Cancel(1)

SpecHandler == InitHandler /\ [][NextHandler]_vars

\* ------------------------------------------------- large uploads
\* a uniform red image of 100 by 100 pixels
RedSquare == [minX |-> 0, minY |-> 0, maxX |-> 100, maxY |-> 100, pat |-> "uniform"]

\* one row of pixels, as wide as the JPEG format does not allow
HugeImage == [minX |-> 0, minY |-> 0, maxX |-> JpegLimit, maxY |-> 1, pat |-> "uniform"]

ValidRequest(str, img) ==
  [formOk |-> TRUE, hasFile |-> TRUE, size |-> MaxUploadSize, tileSizeStr |-> str,
   decodes |-> TRUE, image |-> img]

\* the red square at tile size 50, the huge image at tile size 200, and one
\* request for each way to fail validation
LargeRequests ==
  LET ok == ValidRequest(<<"5", "0">>, RedSquare)
  IN {ok, ValidRequest(<<"2", "0", "0">>, HugeImage),
      [ok EXCEPT !.formOk = FALSE], [ok EXCEPT !.hasFile = FALSE],
      [ok EXCEPT !.size = MaxUploadSize + 1], [ok EXCEPT !.tileSizeStr = <<"x">>],
      [ok EXCEPT !.tileSizeStr = <<"4">>], [ok EXCEPT !.decodes = FALSE]}

\* an index of one pure red and one pure blue tile, or an empty index; the
\* red tile file may have become unreadable
RedBlueIndex == {KeyList[1], KeyList[2]}

InitLarge ==
  /\ tilesDB = BaseRef
  /\ \E S \in {{}, RedBlueIndex} :
       /\ heap = [ref \in Refs |-> IF ref = BaseRef THEN [k \in S |-> ColorOfKey(k)] ELSE EmptyDB]
       /\ built = [k \in S |-> ColorOfKey(k)]
       /\ broken \in {{}, S \cap {KeyList[1]}}
  /\ InitReqs
  /\ nearestCall = NoCall
  /\ NoCalls

mosaicHandlerLarge(r) == hpc[r] = "idle" /\ \E rq \in LargeRequests : Receive(r, rq)

NextLarge ==
  \/ mosaicHandlerLarge(1) \/ ParseMultipartForm(1) \/ FormFile(1) \/ CheckFileSize(1)
  \/ ParseTileSize(1) \/ CheckTileSize(1) \/ Decode(1) \/ Generate(1)
  \/ CellStep(1) \/ Finish(1) \/ CheckGenerate(1) \/ Success(1)

SpecLarge == InitLarge /\ [][NextLarge]_vars

\* ------------------------------------------------------------------- main
\* var tilesDB map[string][3]float64: the nil map, read as an empty map
NilRef == 0 - 1

\* os.ReadDir("tiles"): the tile files of D, sorted by name
RECURSIVE Listing(_, _)
Listing(D, i) ==
  IF i > Len(KeyList) THEN <<>>
  ELSE IF KeyList[i] \in D THEN <<KeyList[i]>> \o Listing(D, i + 1)
  ELSE Listing(D, i + 1)

\* the process starts: tilesDB is nil, TilesDB() has made its map (BaseRef)
\* and read the directory, some of whose files do not decode
InitMain ==
  /\ tilesDB = NilRef
  /\ heap = [ref \in Refs \cup {NilRef} |-> EmptyDB]
  /\ built = EmptyDB
  /\ \E D \in SUBSET Keys :
       /\ broken \in SUBSET D
       /\ server = [pc |-> "build", dir |-> Listing(D, 1), i |-> 1, assigns |-> 0]
  /\ NoRequests
  /\ nearestCall = NoCall
  /\ NoCalls

\* one iteration of the loop of TilesDB: processImageFile puts the file into
\* the map under construction, a file that fails is logged and left out
BuildFile ==
  /\ server.pc = "build" /\ server.i <= Len(server.dir)
  /\ LET k == server.dir[server.i]
     IN heap' = IF FileOk(k, broken) THEN [heap EXCEPT ![BaseRef] = MapSet(@, k, ColorOfKey(k))]
                ELSE heap
  /\ server' = [server EXCEPT !.i = @ + 1]
  /\ UNCHANGED <<tilesDB, built, broken, reqVars, handlerVars, nearestCall, callVars>>

\* tilesDB = tiles_db.TilesDB(): TilesDB returns its map and main assigns it
AssignIndex ==
  /\ server.pc = "build" /\ server.i > Len(server.dir)
  /\ tilesDB' = BaseRef
  /\ built' = heap[BaseRef]
  /\ server' = [server EXCEPT !.pc = "listen", !.assigns = @ + 1]
  /\ UNCHANGED <<heap, broken, reqVars, handlerVars, nearestCall, callVars>>

\* router := routes(); server := &http.Server{...}; go server.ListenAndServe()
Listen ==
  /\ server.pc = "listen"
  /\ server' = [server EXCEPT !.pc = "serving"]
  /\ UNCHANGED <<globVars, reqVars, handlerVars, nearestCall, callVars>>

\* <-quit; server.Shutdown(ctx): no new request, the running ones go on
Shutdown ==
  /\ server.pc = "serving"
  /\ server' = [server EXCEPT !.pc = "stopped"]
  /\ UNCHANGED <<globVars, reqVars, handlerVars, nearestCall, callVars>>

\* a listener that is open from the start of the process
Listening_always(at) == TRUE

\* the listener takes connections from ListenAndServe until Shutdown
Listening(at) == at = "serving"

\* a valid upload of one cell, and one whose image does not decode
MainRequests ==
  LET ok == ValidRequest(<<"5">>, [minX |-> 0, minY |-> 0, maxX |-> 1, maxY |-> 1, pat |-> "split"])
  IN {ok, [ok EXCEPT !.decodes = FALSE]}

Accept(r) ==
  /\ hpc[r] = "idle"
  /\ Listening(server.pc)
  /\ \E rq \in MainRequests : Receive(r, rq)

\* the requests followed: two at a time
MainReqs == {r \in Reqs : r <= 2}

NextMain ==
  \/ BuildFile \/ AssignIndex \/ Listen \/ Shutdown
  \/ \E r \in MainReqs :
       \/ Accept(r) \/ ParseMultipartForm(r) \/ FormFile(r) \/ CheckFileSize(r)
       \/ ParseTileSize(r) \/ CheckTileSize(r) \/ Decode(r) \/ Generate(r)
       \/ CellStep(r) \/ Finish(r) \/ CheckGenerate(r) \/ Success(r)

SpecMain == InitMain /\ [][NextMain]_vars

\* ------------------------------------------- a call of CloneTilesDB alone
Grey == <<128, 128, 128>>
NewKey == "new.jpg"

\* the index is any set of the tile files; nothing has been cloned
InitClone ==
  /\ tilesDB = BaseRef
  /\ \E S \in SUBSET Keys :
       /\ heap = [ref \in Refs |-> IF ref = BaseRef THEN [k \in S |-> ColorOfKey(k)] ELSE EmptyDB]
       /\ built = [k \in S |-> ColorOfKey(k)]
  /\ broken = {}
  /\ InitReqs
  /\ nearestCall = NoCall
  /\ NoCalls

\* cloned := CloneTilesDB(original); cloneCall keeps what each of the two
\* maps has to hold: index for the original, clone for the returned map
CloneCall ==
  /\ ~cloneCall.called
  /\ LET cl == CloneTilesDB(heap, tilesDB, 1)
     IN /\ heap' = cl.heap
        /\ cloneCall' = [called |-> TRUE, ref |-> cl.ref, index |-> heap[tilesDB],
                          clone |-> heap[tilesDB], ops |-> 0]
  /\ UNCHANGED <<tilesDB, built, broken, reqVars, handlerVars, nearestCall, server, resizeCall, averageCall, scan>>

\* cloned[k] = c and delete(cloned, k)
InsertClone(k, c) ==
  /\ cloneCall.called /\ cloneCall.ops < MaxOps
  /\ heap' = [heap EXCEPT ![cloneCall.ref] = MapSet(@, k, c)]
  /\ cloneCall' = [cloneCall EXCEPT !.clone = MapSet(@, k, c), !.ops = @ + 1]
  /\ UNCHANGED <<tilesDB, built, broken, reqVars, handlerVars, nearestCall, server, resizeCall, averageCall, scan>>

DeleteClone(k) ==
  /\ cloneCall.called /\ cloneCall.ops < MaxOps
  /\ heap' = [heap EXCEPT ![cloneCall.ref] = Delete(@, k)]
  /\ cloneCall' = [cloneCall EXCEPT !.clone = Delete(@, k), !.ops = @ + 1]
  /\ UNCHANGED <<tilesDB, built, broken, reqVars, handlerVars, nearestCall, server, resizeCall, averageCall, scan>>

\* original[k] = c and delete(original, k)
InsertIndex(k, c) ==
  /\ cloneCall.called /\ cloneCall.ops < MaxOps
  /\ heap' = [heap EXCEPT ![tilesDB] = MapSet(@, k, c)]
  /\ cloneCall' = [cloneCall EXCEPT !.index = MapSet(@, k, c), !.ops = @ + 1]
  /\ UNCHANGED <<tilesDB, built, broken, reqVars, handlerVars, nearestCall, server, resizeCall, averageCall, scan>>

DeleteIndex(k) ==
  /\ cloneCall.called /\ cloneCall.ops < MaxOps
  /\ heap' = [heap EXCEPT ![tilesDB] = Delete(@, k)]
  /\ cloneCall' = [cloneCall EXCEPT !.index = Delete(@, k), !.ops = @ + 1]
  /\ UNCHANGED <<tilesDB, built, broken, reqVars, handlerVars, nearestCall, server, resizeCall, averageCall, scan>>

NextClone ==
  \/ CloneCall
  \/ \E k \in Keys \cup {NewKey} : InsertClone(k, Grey) \/ InsertIndex(k, Grey)
  \/ \E k \in Keys : DeleteClone(k) \/ DeleteIndex(k)

SpecClone == InitClone /\ [][NextClone]_vars

\* ------------------------------------------------- a call of Resize alone
\* the source is 0 to MaxDim pixels wide and high, newWidth runs from -1 to MaxDim
InitResize ==
  /\ tilesDB = BaseRef
  /\ heap = [ref \in Refs |-> EmptyDB]
  /\ built = EmptyDB
  /\ broken = {}
  /\ InitReqs
  /\ nearestCall = NoCall
  /\ cloneCall = NoClone
  /\ averageCall = NoAverage
  /\ scan = NoScan
  /\ \E w \in 0..MaxDim, h \in 0..MaxDim, nw \in (0 - 1)..MaxDim :
       resizeCall = [NoResize EXCEPT !.w = w, !.h = h, !.newWidth = nw]

ResizeCall ==
  /\ ~resizeCall.called
  /\ LET out == Resize([key |-> KeyList[1], w |-> resizeCall.w, h |-> resizeCall.h], resizeCall.newWidth)
     IN resizeCall' = [resizeCall EXCEPT !.called = TRUE, !.panic = out.panic,
                                         !.outW = out.w, !.outH = out.h, !.px = out.px]
  /\ UNCHANGED <<globVars, reqVars, handlerVars, nearestCall, server, cloneCall, averageCall, scan>>

NextResize == ResizeCall

SpecResize == InitResize /\ [][NextResize]_vars

\* -------- a call of AverageColor, and of calculateAverageColor, alone
\* AverageColor(img): the channel sums over every pixel of the bounds, each
\* divided by totalPixels := bounds.Max.X * bounds.Max.Y.  n = 0 stands for
\* the float division by zero, which gives no color.
AverageColor(img) ==
  [c |-> SumFrom(img, img.minY, img.minX, img.maxX, img.maxY).c, n |-> img.maxX * img.maxY]

\* images of 0 to MaxDim pixels a side whose bounds start at 0, 1 or 2
AverageImages ==
  {[minX |-> ox, minY |-> oy, maxX |-> ox + w, maxY |-> oy + h, pat |-> p] :
     ox \in 0..2, oy \in 0..2, w \in 0..MaxDim, h \in 0..MaxDim, p \in Patterns}

InitAverage ==
  /\ tilesDB = BaseRef
  /\ heap = [ref \in Refs |-> EmptyDB]
  /\ built = EmptyDB
  /\ broken = {}
  /\ InitReqs
  /\ nearestCall = NoCall
  /\ cloneCall = NoClone
  /\ resizeCall = NoResize
  /\ scan = NoScan
  /\ \E img \in AverageImages : averageCall = [NoAverage EXCEPT !.img = img]

AverageCall ==
  /\ ~averageCall.called
  /\ LET img == averageCall.img
     IN averageCall' =
          [averageCall EXCEPT !.called = TRUE, !.out = AverageColor(img),
             !.region = calculateAverageColor(img, img.minX, img.minY, img.maxX, img.maxY)]
  /\ UNCHANGED <<globVars, reqVars, handlerVars, nearestCall, server, cloneCall, resizeCall, scan>>

NextAverage == AverageCall

SpecAverage == InitAverage /\ [][NextAverage]_vars

\* ------------------------------------------------------ a run of TilesDB
\* a directory entry: its name as stem and extension, whether it is a
\* directory, whether os.Open and image.Decode succeed on it
File(stem, ext, isDir, canOpen, canDecode) ==
  [name |-> [stem |-> stem, ext |-> ext], isDir |-> isDir, opens |-> canOpen, decodes |-> canDecode]

\* what the tiles directory may hold: images, an image with an upper-case
\* extension, a text file, a corrupt image, an image of a format without a
\* decoder, an unreadable image, a subdirectory named like an image, a file
\* without extension
DirEntries ==
  <<File("a", ".jpg", FALSE, TRUE, TRUE), File("b", ".PNG", FALSE, TRUE, TRUE),
    File("d", ".gif", FALSE, TRUE, FALSE), File("e", ".webp", FALSE, TRUE, FALSE),
    File("f", ".jpeg", FALSE, FALSE, FALSE), File("notes", ".txt", FALSE, TRUE, FALSE),
    File("README", "", FALSE, TRUE, FALSE), File("sub", ".jpg", TRUE, TRUE, FALSE)>>

\* os.ReadDir: the entries of the directory, sorted by name
RECURSIVE ReadDir(_, _)
ReadDir(S, i) ==
  IF i > Len(DirEntries) THEN <<>>
  ELSE IF i \in S THEN <<DirEntries[i]>> \o ReadDir(S, i + 1)
  ELSE ReadDir(S, i + 1)

\* the decoded tile: one red pixel
TileImage == [minX |-> 0, minY |-> 0, maxX |-> 1, maxY |-> 1, pat |-> "uniform"]

\* filepath.Join(tilesDir, filename)
Join(dir, name) == [dir |-> dir, name |-> name]

\* strings.ToLower on the extensions drawn
ToLower(ext) ==
  CASE ext = ".PNG" -> ".png"
    [] ext = ".JPG" -> ".jpg"
    [] OTHER -> ext

\* isImageFile(filename)
isImageFile(name) ==
  ToLower(name.ext) \in {".jpg", ".jpeg", ".png", ".gif", ".bmp", ".tiff", ".webp"}

\* processImageFile(filePath, db): the error and the map afterwards
processImageFile(file, filePath, idx) ==
  IF ~file.opens \/ ~file.decodes THEN [err |-> TRUE, db |-> idx]
  ELSE [err |-> FALSE, db |-> MapSet(idx, filePath, AverageColor(TileImage))]

\* a scan that gives up at the first file it cannot process
AfterFileError_abort(err) == IF err THEN "abort" ELSE "continue"

\* if err := processImageFile(...); err != nil { log }: the loop goes on
AfterFileError(err) == "continue"

\* the directory is missing, unreadable, or holds any of the entries
InitScan ==
  /\ tilesDB = BaseRef
  /\ heap = [ref \in Refs |-> EmptyDB]
  /\ built = EmptyDB
  /\ broken = {}
  /\ InitReqs
  /\ nearestCall = NoCall
  /\ cloneCall = NoClone
  /\ resizeCall = NoResize
  /\ averageCall = NoAverage
  /\ \E S \in SUBSET (1..Len(DirEntries)), exists \in BOOLEAN, readable \in BOOLEAN :
       /\ exists \/ (~readable /\ S = {})
       /\ scan = [pc |-> "start", exists |-> exists, readable |-> readable, dir |-> ReadDir(S, 1),
                   i |-> 1, db |-> EmptyDB, failed |-> FALSE]

\* TilesDB() up to the loop: os.Stat and os.ReadDir
ScanStart ==
  /\ scan.pc = "start"
  /\ scan' = [scan EXCEPT !.pc = IF ~scan.exists \/ ~scan.readable \/ Len(scan.dir) = 0
                                   THEN "done" ELSE "loop"]
  /\ UNCHANGED <<globVars, reqVars, handlerVars, nearestCall, server, cloneCall, resizeCall, averageCall>>

\* one iteration of the loop over the directory entries
ScanFile ==
  /\ scan.pc = "loop"
  /\ LET file == scan.dir[scan.i]
         last == scan.i = Len(scan.dir)
         p == processImageFile(file, Join("tiles", file.name), scan.db)
     IN IF file.isDir \/ ~isImageFile(file.name)
          THEN scan' = [scan EXCEPT !.i = @ + 1, !.pc = IF last THEN "done" ELSE "loop"]
        ELSE IF AfterFileError(p.err) = "continue"
          THEN scan' = [scan EXCEPT !.i = @ + 1, !.db = p.db, !.pc = IF last THEN "done" ELSE "loop"]
        ELSE scan' = [scan EXCEPT !.failed = TRUE, !.pc = "done"]
  /\ UNCHANGED <<globVars, reqVars, handlerVars, nearestCall, server, cloneCall, resizeCall, averageCall>>

NextScan == ScanStart \/ ScanFile

SpecScan == InitScan /\ [][NextScan]_vars

\* ================================================================== claims
CallDist(k) == Distance(nearestCall.target, nearestCall.pool[k])

\* C1: on a non-empty pool Nearest returns a key of the pool whose distance to
\* the target is minimal among all entries the pool held before the call.
C1_NearestIsMinimal ==
  (nearestCall.called /\ DOMAIN nearestCall.pool # {}) =>
     /\ nearestCall.key \in DOMAIN nearestCall.pool
     /\ \A k \in DOMAIN nearestCall.pool : ~DistLT(CallDist(k), CallDist(nearestCall.key))

\* a call on a pool of several entries at different distances, the first in
\* range not being the nearest
C1_Witness ==
  /\ nearestCall.called
  /\ Cardinality(DOMAIN nearestCall.pool) >= 3
  /\ \E k \in DOMAIN nearestCall.pool : DistLT(CallDist(nearestCall.key), CallDist(k))
  /\ nearestCall.key # KeyList[1]

\* C2: on a non-empty pool Nearest removes exactly the key it returns; every
\* other key stays with its color.
C2_NearestRemovesReturnedKey ==
  (nearestCall.called /\ DOMAIN nearestCall.pool # {}) =>
     /\ nearestCall.key \in DOMAIN nearestCall.pool
     /\ DOMAIN nearestCall.after = (DOMAIN nearestCall.pool) \ {nearestCall.key}
     /\ \A k \in DOMAIN nearestCall.after : nearestCall.after[k] = nearestCall.pool[k]

\* the red, green and blue pool of TestNearest after the call
C2_Witness ==
  /\ nearestCall.called
  /\ nearestCall.target = Exact(NearRed)
  /\ {nearestCall.pool[k] : k \in DOMAIN nearestCall.pool} = {Red, Green, Blue}
  /\ nearestCall.pool[nearestCall.key] = Red
  /\ Cardinality(DOMAIN nearestCall.after) = 2

\* C3: on an empty pool Nearest returns the empty key and leaves the pool empty.
C3_NearestOnEmptyPool ==
  (nearestCall.called /\ DOMAIN nearestCall.pool = {}) =>
     /\ nearestCall.key = ""
     /\ DOMAIN nearestCall.after = {}

C3_Witness == nearestCall.called /\ DOMAIN nearestCall.pool = {} /\ nearestCall.key = ""

\* C4: the shared index is never modified after it is built, whatever the
\* interleaving of the requests; the pool of a request is a map of its own.
C4_BaseIndexNeverModified ==
  /\ tilesDB = BaseRef
  /\ heap[tilesDB] = built
  /\ \A r \in Reqs : db[r] # tilesDB

\* two requests in their cell loops at once, both with a depleted pool
C4_Witness ==
  \E r1, r2 \in Reqs :
    /\ r1 # r2
    /\ pc[r1] = "loop" /\ pc[r2] = "loop"
    /\ Len(cells[r1]) >= 1 /\ Len(cells[r2]) >= 1
    /\ DOMAIN heap[db[r1]] # DOMAIN built /\ DOMAIN heap[db[r2]] # DOMAIN built
    /\ DOMAIN heap[db[r1]] # DOMAIN heap[db[r2]]

\* C5 as stated: a key matched to a cell is matched to no later cell of the
\* same mosaic.
C5_NoReuseInMosaic ==
  \A i, j \in 1..Len(cells[1]) :
    (i < j /\ cells[1][i].key # "") => cells[1][j].key # cells[1][i].key

\* C5 amended: a key matched to a cell is matched to no later cell until the
\* pool is refilled: between two refills the matched keys are distinct.
C5_NoReuseBetweenRefills ==
  \A i, j \in 1..Len(cells[1]) :
    (i < j /\ cells[1][i].key # "" /\ cells[1][i].epoch = cells[1][j].epoch)
       => cells[1][j].key # cells[1][i].key

\* two cells matched from the same filling of the pool, and a later cell
\* matched after a refill
C5_Witness ==
  \E i, j, k \in 1..Len(cells[1]) :
    /\ i < j /\ j < k
    /\ cells[1][i].key # "" /\ cells[1][j].key # ""
    /\ cells[1][i].epoch = cells[1][j].epoch
    /\ cells[1][k].epoch > cells[1][j].epoch
    /\ cells[1][k].key = cells[1][i].key

\* C6: a cell for which Nearest finds nothing while the base index is
\* non-empty is matched after one refill and retry, and the composition is
\* not aborted.
C6_RefillAndRetry ==
  /\ \A i \in 1..Len(cells[1]) :
       (cells[1][i].first = "" /\ DOMAIN built # {}) =>
          /\ cells[1][i].refilled
          /\ cells[1][i].key \in DOMAIN built
  /\ result[1] # "error"
  /\ refills[1] <= Len(cells[1])

\* a finished composition with a cell matched by the retry
C6_Witness ==
  /\ pc[1] = "done" /\ result[1] = "ok"
  /\ \E i \in 1..Len(cells[1]) :
       cells[1][i].first = "" /\ cells[1][i].refilled /\ cells[1][i].key # ""

\* C7: against an empty index the composition completes without error, with
\* every pixel painted by the black fill, and opens no tile file.
C7_EmptyIndexAllBlack ==
  (DOMAIN built = {}) =>
     /\ opens[1] = {}
     /\ result[1] # "error"
     /\ pc[1] = "done" =>
          /\ result[1] = "ok"
          /\ newImage[1].bounds = original[1]
          /\ \A p \in Bounds(original[1]) : PixelAt(newImage[1], p) = BlackPx

\* a finished composition of several cells against the empty index
C7_Witness ==
  /\ DOMAIN built = {}
  /\ pc[1] = "done"
  /\ Len(cells[1]) >= 2
  /\ \A p \in Bounds(original[1]) : PixelAt(newImage[1], p) = BlackPx

\* C8: every source pixel read and every canvas pixel written lies inside the
\* image bounds, and every cell is clipped to them.
C8_AccessInsideBounds ==
  /\ reads[1] \subseteq Bounds(original[1])
  /\ writes[1] \subseteq Bounds(original[1])
  /\ \A i \in 1..Len(cells[1]) :
       LET c == cells[1][i]
       IN /\ original[1].minX <= c.x /\ c.x + c.w <= original[1].maxX
          /\ original[1].minY <= c.y /\ c.y + c.h <= original[1].maxY
          /\ c.w >= 1 /\ c.h >= 1

\* a clipped cell of the last column has just been read and written
C8_Witness ==
  /\ Len(cells[1]) >= 2
  /\ cells[1][Len(cells[1])].w < tileSize[1]
  /\ reads[1] # {} /\ writes[1] # {}
  /\ original[1].minX > 0

NumCells(img, ts) ==
  (((img.maxX - img.minX) + ts - 1) \div ts) * (((img.maxY - img.minY) + ts - 1) \div ts)

\* C9: a tile that fails to open or decode does not abort the composition:
\* every cell is still processed and an encoded image is returned.
C9_TileErrorDoesNotAbort ==
  /\ result[1] # "error"
  /\ (pc[1] = "done" /\ \E i \in 1..Len(cells[1]) : cells[1][i].err) =>
        /\ result[1] = "ok"
        /\ Len(cells[1]) = NumCells(original[1], tileSize[1])

\* a finished composition in which a cell before the last hit a broken tile
C9_Witness ==
  /\ pc[1] = "done" /\ result[1] = "ok"
  /\ \E i \in 1..Len(cells[1]) : i < Len(cells[1]) /\ cells[1][i].err

CellRect(c) == (c.x..(c.x + c.w - 1)) \X (c.y..(c.y + c.h - 1))

\* C10: a cell whose tile fails to open or decode is painted with the flat
\* fallback fill, the fill of a cell without a tile.
C10_FailedCellIsFilled ==
  \A i \in 1..Len(cells[1]) :
    cells[1][i].err => \A p \in CellRect(cells[1][i]) : PixelAt(newImage[1], p) = BlackPx

\* ----------------------------------------------------------- the handler
Returned(r) == hpc[r] = "returned"

\* the drawn tileSize values that are an integer in 5..200
ValidTileSizeStrs == {<<"5">>, <<"5", "0">>, <<"2", "0", "0">>, <<"+", "5">>}

InvalidTileSizeResponse(rs) ==
  Len(rs) = 1 /\ rs[1].status = 400 /\ rs[1].body.error = "Invalid tile size"

PassedUploadChecks(rq) == rq.formOk /\ rq.hasFile /\ rq.size <= MaxUploadSize

\* C11 as stated: every request whose tileSize is absent, not an integer or
\* outside 5..200 is answered with 400 and the error "Invalid tile size"; a
\* tileSize in 5..200 passes the tile-size validation.
C11_InvalidTileSizeRejected ==
  \A r \in Reqs : Returned(r) =>
     /\ request[r].tileSizeStr \notin ValidTileSizeStrs => InvalidTileSizeResponse(resp[r])
     /\ request[r].tileSizeStr \in ValidTileSizeStrs =>
          \A i \in 1..Len(resp[r]) : resp[r][i].body.error # "Invalid tile size"

\* C11 amended: a request that passed the form, file and file-size checks and
\* whose tileSize is absent, not an integer or outside 5..200 is answered with
\* 400 and the error "Invalid tile size"; whatever the earlier checks said, a
\* request with such a tileSize is answered with 400, and a tileSize in 5..200
\* passes the tile-size validation.
C11_InvalidTileSizeAfterUploadChecks ==
  \A r \in Reqs : Returned(r) =>
     /\ request[r].tileSizeStr \notin ValidTileSizeStrs =>
          /\ Len(resp[r]) = 1 /\ resp[r][1].status = 400
          /\ PassedUploadChecks(request[r]) => InvalidTileSizeResponse(resp[r])
     /\ request[r].tileSizeStr \in ValidTileSizeStrs =>
          \A i \in 1..Len(resp[r]) : resp[r][i].body.error # "Invalid tile size"

\* an upload of a decodable image with tileSize 201, answered
C11_Witness ==
  /\ Returned(1)
  /\ PassedUploadChecks(request[1]) /\ request[1].decodes
  /\ request[1].tileSizeStr = <<"2", "0", "1">>
  /\ InvalidTileSizeResponse(resp[1])

FailsValidation(rq) ==
  \/ ~rq.formOk
  \/ ~rq.hasFile
  \/ rq.size > MaxUploadSize
  \/ rq.tileSizeStr \notin ValidTileSizeStrs
  \/ ~rq.decodes

\* generateMosaic has been called for request r
Invoked(r) == pc[r] # "idle" \/ cells[r] # <<>> \/ result[r] # "none"

\* C12: for a request that fails input validation (form, file, file size,
\* tile size, image decoding) generateMosaic is never invoked, and the one
\* response it gets is an error response.
C12_InvalidRequestNeverComposed ==
  \A r \in Reqs : (hpc[r] # "idle" /\ FailsValidation(request[r])) =>
     /\ ~Invoked(r)
     /\ hpc[r] \notin {"generate", "wait", "success"}
     /\ Returned(r) =>
          /\ Len(resp[r]) = 1
          /\ resp[r][1].status = 400
          /\ resp[r][1].body.keys = {"error", "message", "code"}

\* an upload that passes every check but the decoding of the image, answered
C12_Witness ==
  /\ Returned(1)
  /\ PassedUploadChecks(request[1]) /\ request[1].tileSizeStr = <<"5", "0">>
  /\ ~request[1].decodes
  /\ Len(resp[1]) = 1 /\ resp[1][1].body.error = "Invalid image format"
  /\ ~Invoked(1)

\* C13: a request that completes is answered with 201 and a body of mosaicImg
\* and duration; a request that fails is answered with a 4xx or 5xx status
\* and a body of error, message and code, code being the status written.
C13_ResponseShape ==
  \A r \in Reqs :
    /\ \A i \in 1..Len(resp[r]) :
         LET w == resp[r][i]
         IN IF w.status = 201
              THEN /\ w.body.keys = {"mosaicImg", "duration"}
                   /\ result[r] = "ok" /\ w.body.mosaicImg = "ok"
                   /\ ~FailsValidation(request[r])
              ELSE /\ w.status \in 400..599
                   /\ w.body.keys = {"error", "message", "code"}
                   /\ w.body.code = w.status
                   /\ w.body.error # ""
                   /\ FailsValidation(request[r]) \/ result[r] = "error"
    /\ Returned(r) => Len(resp[r]) = 1

\* the upload of the huge image, answered with 500 after the composition failed
C13_Witness ==
  /\ Returned(1)
  /\ request[1].image = HugeImage
  /\ result[1] = "error"
  /\ resp[1] = <<sendErrorResponse(500, "Failed to generate mosaic", "failed to encode image")>>
  /\ resp[1][1].body.code = 500

\* the canvas is wider or higher than the JPEG format allows
TooLarge(img) == img.maxX - img.minX >= JpegLimit \/ img.maxY - img.minY >= JpegLimit

\* C14: when the final JPEG encoding fails generateMosaic returns an error and
\* the handler answers 500; nothing else that goes wrong inside the
\* composition (a tile that fails to open or decode, an exhausted pool) makes
\* generateMosaic return an error or the handler answer with an error.
C14_OnlyEncodeFailureSurfaces ==
  \A r \in Reqs :
    /\ result[r] = "error" => pc[r] = "done" /\ TooLarge(original[r])
    /\ pc[r] = "done" =>
         /\ Len(cells[r]) = NumCells(original[r], tileSize[r])
         /\ TooLarge(original[r]) => result[r] = "error"
    /\ (Returned(r) /\ Invoked(r)) =>
         /\ Len(resp[r]) = 1
         /\ resp[r][1].status = (IF TooLarge(original[r]) THEN 500 ELSE 201)

\* the huge image composed against the red and blue index, the red tile file
\* unreadable: every cell processed, some with a tile error, some after a
\* refill, and the request answered with 500
C14_Witness ==
  /\ Returned(1)
  /\ TooLarge(original[1])
  /\ Len(cells[1]) = NumCells(original[1], tileSize[1])
  /\ \E i \in 1..Len(cells[1]) : cells[1][i].err
  /\ \E i \in 1..Len(cells[1]) : cells[1][i].refilled
  /\ result[1] = "error"
  /\ resp[1][1].status = 500

\* ------------------------------------------------------------ the library
\* C15: CloneTilesDB returns a map with the keys and colors of the index, and
\* the two maps are independent: an insertion into or a deletion from either
\* map afterwards leaves the other as it was.
C15_CloneIsIndependentCopy ==
  cloneCall.called =>
     /\ heap[tilesDB] = cloneCall.index
     /\ heap[cloneCall.ref] = cloneCall.clone
     /\ cloneCall.ops = 0 => heap[cloneCall.ref] = built /\ heap[tilesDB] = built

\* the clone of a three-tile index after new.jpg was put into the clone and
\* a tile was deleted from the index: each map lacks the other's change
C15_Witness ==
  /\ cloneCall.called /\ cloneCall.ops = 2
  /\ Cardinality(DOMAIN built) >= 3
  /\ NewKey \in DOMAIN heap[cloneCall.ref] /\ NewKey \notin DOMAIN heap[tilesDB]
  /\ \E k \in DOMAIN built : k \in DOMAIN heap[cloneCall.ref] /\ k \notin DOMAIN heap[tilesDB]

\* C16: Resize never divides by zero and returns an image of at least 1 by 1
\* pixels, for every newWidth (larger than the source, zero, negative) and
\* every source size (zero width or height included).
C16_ResizeTotal ==
  resizeCall.called =>
     /\ ~resizeCall.panic
     /\ resizeCall.outW >= 1
     /\ resizeCall.outH >= 1

\* a source without rows resized to more than its width
C16_Witness ==
  /\ resizeCall.called
  /\ resizeCall.w >= 1 /\ resizeCall.h = 0
  /\ resizeCall.newWidth > resizeCall.w
  /\ resizeCall.outW = resizeCall.newWidth /\ resizeCall.outH = 1

\* C17: for an image of one pixel or more whose pixels all have the color c,
\* AverageColor returns exactly c in every channel, whatever the origin of
\* the bounds.
C17_AverageOfUniformImage ==
  (averageCall.called /\ averageCall.img.pat = "uniform" /\ Bounds(averageCall.img) # {}) =>
     /\ averageCall.out.n # 0
     /\ \A k \in 1..3 : averageCall.out.c[k] = Red[k] * averageCall.out.n

\* the entries TilesDB is to index: regular files with an image extension
\* (.jpg, .PNG, .gif, .webp, .jpeg among those drawn) that open and decode
Indexable(file) ==
  /\ ~file.isDir
  /\ file.name.ext \in {".jpg", ".PNG", ".gif", ".webp", ".jpeg"}
  /\ file.opens /\ file.decodes

\* C18: building the index never fails: its keys are exactly the full paths
\* of the regular files directly in the tiles directory that have an image
\* extension and decode; a file that cannot be read is skipped; a missing or
\* empty directory gives the empty index.
C18_IndexBuildIsTotal ==
  /\ ~scan.failed
  /\ scan.pc = "done" =>
       /\ DOMAIN scan.db =
            IF scan.exists /\ scan.readable
              THEN {Join("tiles", scan.dir[i].name) : i \in {j \in 1..Len(scan.dir) : Indexable(scan.dir[j])}}
              ELSE {}
       /\ \A k \in DOMAIN scan.db : scan.db[k] = Exact(Red)
       /\ (~scan.exists \/ Len(scan.dir) = 0) => scan.db = EmptyDB

\* a finished scan of a directory with two good images, the second after a
\* corrupt one, an unreadable one, a text file and a subdirectory
C18_Witness ==
  /\ scan.pc = "done"
  /\ Len(scan.dir) = Len(DirEntries)
  /\ DOMAIN scan.db = {Join("tiles", DirEntries[1].name), Join("tiles", DirEntries[2].name)}

\* ------------------------------------------------------- the composition
\* C19: once the request is aborted (the client is gone or the timeout has
\* passed) the composition processes no further cell, and a response is
\* written only for a composition that ran to its end.
C19_CancelStopsComposition ==
  [][\A r \in Reqs :
       /\ cancelled[r] => cells'[r] = cells[r]
       /\ resp'[r] # resp[r] => (pc[r] \in {"idle", "done"})]_vars

\* the red square at tile size 50 against the index of one red and one blue tile
ScenarioA(r) ==
  /\ original[r] = RedSquare /\ tileSize[r] = 50
  /\ DOMAIN built = RedBlueIndex
  /\ built[KeyList[1]] = Red /\ built[KeyList[2]] = Blue

MatchedKeys(r) == [i \in 1..Len(cells[r]) |-> cells[r][i].key]

\* C20 as stated: the composition of scenario A has 4 cells and every cell
\* is matched to the red tile.
C20_EveryCellRed ==
  \A r \in Reqs : (ScenarioA(r) /\ pc[r] = "done") =>
     /\ Len(cells[r]) = 4
     /\ \A i \in 1..Len(cells[r]) : cells[r][i].key = KeyList[1]

\* C20 amended: the composition of scenario A has 4 cells; the first and the
\* third are matched to the red tile, the second and the fourth to the blue
\* tile, the one left in the pool; the pool is refilled once, for the third.
C20_RedBlueAlternate ==
  \A r \in Reqs : (ScenarioA(r) /\ pc[r] = "done") =>
     /\ Len(cells[r]) = 4
     /\ MatchedKeys(r) = <<KeyList[1], KeyList[2], KeyList[1], KeyList[2]>>
     /\ \A i \in 1..4 : cells[r][i].refilled <=> i = 3
     /\ \A i \in 1..4 : cells[r][i].w = 50 /\ cells[r][i].h = 50

\* scenario A composed to its end with both tile files readable
C20_Witness ==
  /\ ScenarioA(1) /\ pc[1] = "done" /\ result[1] = "ok"
  /\ broken = {}
  /\ Len(cells[1]) = 4
  /\ \A i \in 1..4 : ~cells[1][i].err

\* ------------------------------------------------------------ the traversal
\* ceil(a / b) for a >= 0, b >= 1
CeilDiv(a, b) == (a + b - 1) \div b

Min(a, b) == IF a < b THEN a ELSE b

\* C21: generateMosaic visits the cells in row-major order: the k-th cell is
\* anchored at (minX + i*tileSize, minY + j*tileSize) with i the column and j
\* the row of k, each anchor once, clipped to the image; a finished composition
\* has ceil(W/tileSize) * ceil(H/tileSize) cells, and one cell covering the
\* whole image when tileSize is at least both dimensions.
C21_RowMajorCells ==
  LET img == original[1]
      ts == tileSize[1]
      W == img.maxX - img.minX
      H == img.maxY - img.minY
      cols == CeilDiv(W, ts)
      rows == CeilDiv(H, ts)
  IN /\ \A k \in 1..Len(cells[1]) :
          LET c == cells[1][k]
              i == (k - 1) % cols
              j == (k - 1) \div cols
          IN /\ j < rows
             /\ c.x = img.minX + i * ts /\ c.y = img.minY + j * ts
             /\ c.w = Min(ts, img.maxX - c.x) /\ c.h = Min(ts, img.maxY - c.y)
     /\ pc[1] = "loop" => Len(cells[1]) < cols * rows
     /\ pc[1] \in {"encode", "done"} => Len(cells[1]) = cols * rows
     /\ (pc[1] \in {"encode", "done"} /\ ts >= W /\ ts >= H) =>
          /\ Len(cells[1]) = 1
          /\ cells[1][1].x = img.minX /\ cells[1][1].y = img.minY
          /\ cells[1][1].w = W /\ cells[1][1].h = H

\* a finished composition of two rows of three cells on an image whose bounds
\* do not start at the origin
C21_Witness ==
  /\ pc[1] = "done"
  /\ original[1].minX > 0
  /\ Len(cells[1]) = 6
  /\ cells[1][4].x = original[1].minX /\ cells[1][4].y = original[1].minY + tileSize[1]

\* a finished composition whose tile size is larger than the image is wide
\* and high: one cell
C21_WitnessOneCell ==
  /\ pc[1] = "done"
  /\ tileSize[1] > original[1].maxX - original[1].minX
  /\ tileSize[1] > original[1].maxY - original[1].minY
  /\ Len(cells[1]) = 1

\* C22: generateMosaic called with a tileSize of zero or less rejects the size
\* without iterating over cells: it returns an error and processes no cell.
C22_DegenerateSizeRejected ==
  \A r \in Reqs : (pc[r] # "idle" /\ tileSize[r] <= 0) =>
     /\ cells[r] = <<>>
     /\ pc[r] = "done"
     /\ result[r] = "error"

\* C22, the loop: with a tileSize of zero the anchor of the next cell is the
\* anchor of the cell just processed, so the loop does not come to an end.
C22_ZeroSizeMakesProgress ==
  \A r \in Reqs : (tileSize[r] = 0 /\ Len(cells[r]) >= 1) =>
     xy[r] # <<cells[r][Len(cells[r])].x, cells[r][Len(cells[r])].y>>

\* ---------------------------------------------------------------- Resize
Max(a, b) == IF a > b THEN a ELSE b

\* r = max(1, floor(W / w)) for the call in resizeCall
CallRatio == Max(1, resizeCall.w \div resizeCall.newWidth)

\* the call has a source of at least one column and a newWidth of at least 1
ResizedProperly == resizeCall.called /\ resizeCall.w >= 1 /\ resizeCall.newWidth >= 1

\* C23 as stated: Resize returns an image of width w and height floor(H / r),
\* r = max(1, floor(W / w)), whose pixel (i, j) is the source pixel at
\* (i*r, j*r).
C23_ResizeSamplesAtStride ==
  (ResizedProperly /\ resizeCall.h >= 1) =>
     /\ resizeCall.outW = resizeCall.newWidth
     /\ resizeCall.outH = resizeCall.h \div CallRatio
     /\ DOMAIN resizeCall.px = (0..(resizeCall.outW - 1)) \X (0..(resizeCall.outH - 1))
     /\ \A p \in DOMAIN resizeCall.px :
          resizeCall.px[p] = TilePx(KeyList[1], p[1] * CallRatio, p[2] * CallRatio)

\* C23 amended: Resize returns an image of width w and height
\* max(1, floor(H / r)), r = max(1, floor(W / w)); its pixel (i, j) is the
\* source pixel at (i*r, j*r) where the source has such a pixel, and the zero
\* value where it has none.
C23_ResizeSamplesInsideSource ==
  ResizedProperly =>
     /\ resizeCall.outW = resizeCall.newWidth
     /\ resizeCall.outH = Max(1, resizeCall.h \div CallRatio)
     /\ DOMAIN resizeCall.px = (0..(resizeCall.outW - 1)) \X (0..(resizeCall.outH - 1))
     /\ \A p \in DOMAIN resizeCall.px :
          resizeCall.px[p] =
            IF p[1] * CallRatio < resizeCall.w /\ p[2] * CallRatio < resizeCall.h
              THEN TilePx(KeyList[1], p[1] * CallRatio, p[2] * CallRatio)
              ELSE ZeroPx

\* the 4 by 4 source of TestResize resized to a width of 2: a 2 by 2 image of
\* the source pixels at stride 2
C23_Witness ==
  /\ resizeCall.called
  /\ resizeCall.w = 4 /\ resizeCall.h = 4 /\ resizeCall.newWidth = 2
  /\ resizeCall.outW = 2 /\ resizeCall.outH = 2
  /\ resizeCall.px[<<1, 1>>] = TilePx(KeyList[1], 2, 2)

\* ------------------------------------------------------ the average color
\* C24: the average color of a region without pixels is the zero color
\* (0, 0, 0), from AverageColor and from calculateAverageColor alike, and no
\* channel is the outcome of a division by zero.
C24_ZeroAreaGivesZeroColor ==
  (averageCall.called /\ Bounds(averageCall.img) = {}) =>
     /\ averageCall.region = Exact(Black)
     /\ averageCall.out.n # 0
     /\ averageCall.out.c = Black

\* C24 for calculateAverageColor alone
C24_ZeroAreaRegionGivesZeroColor ==
  (averageCall.called /\ Bounds(averageCall.img) = {}) => averageCall.region = Exact(Black)

\* ------------------------------------------------------------ the process
\* the index TilesDB is to build from the directory main was started on
FinalIndex == [k \in {server.dir[i] : i \in 1..Len(server.dir)} \ broken |-> ColorOfKey(k)]

\* C25: the index is built once, and completely, before the server accepts
\* its first request: tilesDB is assigned at most once; while any request has
\* been accepted the assignment has happened, tilesDB refers to the whole
\* index and nothing has changed it; every request composes against it.
C25_IndexBuiltBeforeServing ==
  /\ server.assigns <= 1
  /\ server.pc \in {"listen", "serving", "stopped"} <=> server.assigns = 1
  /\ \A r \in Reqs : hpc[r] # "idle" =>
       /\ server.pc \in {"serving", "stopped"}
       /\ tilesDB = BaseRef
       /\ built = FinalIndex
       /\ heap[tilesDB] = built
       /\ \A i \in 1..Len(cells[r]) :
            IF built = EmptyDB THEN cells[r][i].key = "" ELSE cells[r][i].key \in DOMAIN built

\* two requests answered, one of them accepted after the other had composed,
\* against an index of two tiles built from a directory with a corrupt file
C25_Witness ==
  /\ Len(server.dir) >= 3 /\ Cardinality(DOMAIN built) = 2
  /\ server.pc = "stopped"
  /\ Returned(1) /\ Returned(2)
  /\ Len(cells[1]) = 1 /\ Len(cells[2]) = 1
  /\ cells[1][1].key # "" /\ cells[2][1].key # ""

\* ----------------------------------------------------- the no-match result
\* C26: Nearest returns the empty key only on an empty pool: on a non-empty
\* pool it returns a key of the pool, whatever the distances, and the pool
\* has one entry less after the call.
C26_SentinelOnlyOnEmptyPool ==
  nearestCall.called =>
     /\ nearestCall.key = NoMatch => DOMAIN nearestCall.pool = {}
     /\ DOMAIN nearestCall.pool # {} =>
          /\ nearestCall.key \in DOMAIN nearestCall.pool
          /\ Cardinality(DOMAIN nearestCall.after) = Cardinality(DOMAIN nearestCall.pool) - 1

\* ------------------------------------------------------------ the canvas
\* some write of the composition changed the pixel p of the canvas
Written(canvas, p) == \E i \in 1..Len(canvas.ops) : Covers(canvas, canvas.ops[i], p)

\* C27: after a composition in which every matched tile opened and decoded,
\* every pixel of the canvas has been written by a tile blit or by the fill,
\* whatever the size and the shape of the tile images.
C27_EveryPixelWritten ==
  (pc[1] = "done" /\ \A i \in 1..Len(cells[1]) : ~cells[1][i].err) =>
     \A p \in Bounds(original[1]) : Written(newImage[1], p)

\* ------------------------------------------------------- the refill policy
\* the number of cells matched to the tile k so far
Uses(r, k) == Cardinality({i \in 1..Len(cells[r]) : cells[r][i].key = k})

\* C28: with a base index of n >= 1 tiles, each block of n consecutive cells,
\* counted from the first cell, is matched to n distinct tiles of the index;
\* the usage counts of two tiles never differ by more than 1; the pool is
\* refilled only when it is empty, that is for the first cell of each block
\* after the first.
C28_BlocksOfDistinctTiles ==
  LET n == Cardinality(DOMAIN built)
  IN n >= 1 =>
       /\ \A i \in 1..Len(cells[1]) :
            /\ cells[1][i].key \in DOMAIN built
            /\ cells[1][i].refilled <=> (i > 1 /\ (i - 1) % n = 0)
            /\ cells[1][i].refilled => cells[1][i].first = NoMatch
            /\ cells[1][i].epoch = (i - 1) \div n
       /\ \A i, j \in 1..Len(cells[1]) :
            (i < j /\ (i - 1) \div n = (j - 1) \div n) => cells[1][i].key # cells[1][j].key
       /\ \A a, b \in DOMAIN built : Uses(1, a) - Uses(1, b) \in {0 - 1, 0, 1}
       /\ Len(cells[1]) % n = 0 => \A a, b \in DOMAIN built : Uses(1, a) = Uses(1, b)

\* five cells against an index of two tiles: two full blocks and the first
\* cell of the third, after two refills
C28_Witness ==
  /\ Cardinality(DOMAIN built) = 2
  /\ Len(cells[1]) = 5
  /\ refills[1] = 2
  /\ \E a, b \in DOMAIN built : Uses(1, a) = 3 /\ Uses(1, b) = 2

\* ------------------------------------------- a request among other requests
\* the average color of the i-th cell of the request r, from its own upload
CellTarget(r, i) ==
  LET c == cells[r][i]
  IN calculateAverageColor(original[r], c.x, c.y, c.x + c.w, c.y + c.h)

\* the keys a composition running alone holds in its pool when it matches its
\* i-th cell: the index less the keys of its own earlier cells since the
\* last refill
PoolBefore(r, i) ==
  IF cells[r][i].refilled THEN DOMAIN built
  ELSE (DOMAIN built) \ {cells[r][j].key : j \in {j \in 1..(i - 1) : cells[r][j].epoch = cells[r][i].epoch}}

\* the keys of PoolBefore at the smallest distance from the cell's color
Candidates(r, i) ==
  {k \in PoolBefore(r, i) :
     \A k2 \in PoolBefore(r, i) :
        ~DistLT(Distance(CellTarget(r, i), built[k2]), Distance(CellTarget(r, i), built[k]))}

\* the keys a composition running alone holds in its pool now
PoolNow(r) ==
  (DOMAIN built) \ {cells[r][j].key : j \in {j \in 1..Len(cells[r]) : cells[r][j].epoch = refills[r]}}

\* no cell of r had two tiles at the same smallest distance
Deterministic(r) == \A i \in 1..Len(cells[r]) : Cardinality(Candidates(r, i)) <= 1

\* C29: the assignment of tiles to the cells of a request depends on its own
\* image, tile size and the base index only, whatever other requests run at
\* the same time: every cell is matched to a nearest key of the pool the
\* request would hold running alone, its pool is the index less its own
\* matches since its last refill, and two requests with the same image and
\* tile size, where no cell has a tie, are matched the same keys cell by cell.
C29_AssignmentIndependentOfOthers ==
  /\ \A r \in Reqs : pc[r] # "idle" =>
       /\ db[r] # tilesDB
       /\ \A r2 \in Reqs : (r2 # r /\ pc[r2] # "idle") => db[r2] # db[r]
       /\ heap[db[r]] = [k \in PoolNow(r) |-> built[k]]
       /\ \A i \in 1..Len(cells[r]) :
            IF PoolBefore(r, i) = {} THEN cells[r][i].key = NoMatch
            ELSE cells[r][i].key \in Candidates(r, i)
  /\ \A r1, r2 \in Reqs :
       (/\ pc[r1] # "idle" /\ pc[r2] # "idle"
        /\ original[r1] = original[r2] /\ tileSize[r1] = tileSize[r2]
        /\ Deterministic(r1) /\ Deterministic(r2)) =>
          \A i \in 1..Min(Len(cells[r1]), Len(cells[r2])) :
             /\ cells[r1][i].key = cells[r2][i].key
             /\ cells[r1][i].refilled = cells[r2][i].refilled

\* two requests with the same upload and tile size, both between their first
\* and their second cell, each matched the red tile of a red and blue index
\* and each left with the blue tile
C29_Witness ==
  /\ DOMAIN built = {KeyList[1], KeyList[2]}
  /\ pc[1] = "loop" /\ pc[2] = "loop"
  /\ original[1] = original[2] /\ tileSize[1] = 1 /\ tileSize[2] = 1
  /\ Len(cells[1]) = 1 /\ Len(cells[2]) = 1
  /\ cells[1][1].key = KeyList[1] /\ cells[2][1].key = KeyList[1]
  /\ DOMAIN heap[db[1]] = {KeyList[2]} /\ DOMAIN heap[db[2]] = {KeyList[2]}

\* ------------------------------------------------- one response per request
\* the response written by the step, when the step writes one
Sent(r) == resp'[r][Len(resp'[r])]

\* C30: mosaicHandler writes one status and one body for a request.  A step
\* that writes a response is the last step of the handler; once a response is
\* written no check, no decoding, no cell of the composition and no other
\* response follows; an error response sent by a validation check leaves the
\* composition uncalled; the success response is written after generateMosaic
\* has returned without an error, and carries its result.
C30_OneResponseThenReturn ==
  [][\A r \in Reqs :
       /\ Len(resp'[r]) <= 1
       /\ resp[r] # <<>> =>
            /\ resp'[r] = resp[r] /\ hpc'[r] = hpc[r] /\ hpc[r] = "returned"
            /\ pc'[r] = pc[r] /\ cells'[r] = cells[r] /\ result'[r] = result[r]
            /\ newImage'[r] = newImage[r]
       /\ resp'[r] # resp[r] =>
            /\ resp'[r] = Append(resp[r], Sent(r))
            /\ hpc'[r] = "returned"
            /\ pc'[r] = pc[r] /\ cells'[r] = cells[r] /\ result'[r] = result[r]
            /\ IF Sent(r).status = 201
                 THEN /\ hpc[r] = "success"
                      /\ pc[r] = "done" /\ result[r] = "ok"
                      /\ Sent(r).body = MosaicBody(result[r])
                 ELSE /\ hpc[r] \in {"parse", "file", "size", "atoi", "range", "decode", "wait"}
                      /\ hpc[r] # "wait" => ~Invoked(r)
                      /\ hpc[r] = "wait" => pc[r] = "done" /\ result[r] = "error"
       /\ hpc'[r] = "returned" => Len(resp'[r]) = 1]_vars

\* an upload over the size limit whose tile size is valid and whose image
\* would decode: answered with the one error response, nothing composed
C30_Witness ==
  /\ Returned(1)
  /\ request[1].formOk /\ request[1].hasFile /\ request[1].size > MaxUploadSize
  /\ request[1].tileSizeStr = <<"5">> /\ request[1].decodes
  /\ resp[1] = <<sendErrorResponse(400, "File too large", "File size exceeds 10MB limit")>>
  /\ ~Invoked(1)

====
